---- MODULE Spec2Model ----
(***************************************************************************)
(* Model of the metric-collection cache of webdevops go-common:            *)
(*   - prometheus/collector/cache.go: SetCache, collectionRestoreCache,    *)
(*     collectionSaveCache, cacheRead, cacheStore;                         *)
(*   - azuresdk/armclient/client.go, client.resourcegroups.go: the TTL     *)
(*     lookup cache (cacheData, ListCachedResourceGroups).                 *)
(*                                                                         *)
(* Conventions.  A Go pointer (or nil-able slice) is a set with at most    *)
(* one element: {} is nil, {v} points to v.  A Go string that the code     *)
(* takes apart (the cache location) is a sequence of tokens; the scheme    *)
(* prefix and the separator "/" are tokens of their own.  Time is counted  *)
(* in minutes.                                                             *)
(***************************************************************************)
EXTENDS Integers, Sequences, FiniteSets, TLC

(***************************************************************************)
(* Bounds of the model.                                                    *)
(***************************************************************************)
\* last instant of the clock
MaxTime == 4
\* the collector's configured scrape interval (minutes)
ScrapeInterval == 3
\* number of chunks os.WriteFile needs to write one snapshot
Chunks == 2

(***************************************************************************)
(* Pointers.                                                               *)
(***************************************************************************)
Nil == {}
Ptr(v) == {v}
Deref(p) == CHOOSE v \in p : TRUE
\* to.String: the string a *string points to, "" for nil
to_String(p) == IF p = Nil THEN "" ELSE Deref(p)

(***************************************************************************)
(* Strings as token sequences.                                             *)
(***************************************************************************)
\* index of the first "/" of s, 0 when there is none
FirstSlash(s) ==
    IF \E i \in 1..Len(s) : s[i] = "/"
    THEN CHOOSE i \in 1..Len(s) : s[i] = "/" /\ \A j \in 1..(i-1) : s[j] # "/"
    ELSE 0
\* index of the last "/" of s, 0 when there is none
LastSlash(s) ==
    IF \E i \in 1..Len(s) : s[i] = "/"
    THEN CHOOSE i \in 1..Len(s) : s[i] = "/" /\ \A j \in (i+1)..Len(s) : s[j] # "/"
    ELSE 0
\* strings.HasPrefix(s, prefix) for a one-token prefix
HasPrefix(s, prefix) == Len(s) >= 1 /\ s[1] = prefix
\* strings.TrimPrefix(s, prefix) for a one-token prefix
TrimPrefix(s, prefix) == IF HasPrefix(s, prefix) THEN Tail(s) ELSE s
\* strings.SplitN(s, "/", 2): at most two parts, split at the first "/"
SplitN2(s) ==
    IF FirstSlash(s) = 0
    THEN << s >>
    ELSE << SubSeq(s, 1, FirstSlash(s) - 1), SubSeq(s, FirstSlash(s) + 1, Len(s)) >>
\* url.Parse(raw).Path of scheme://host/path: everything from the first "/"
\* after the host on, the "/" included; empty when there is none
UrlPath(raw) ==
    IF FirstSlash(Tail(raw)) = 0
    THEN << >>
    ELSE SubSeq(Tail(raw), FirstSlash(Tail(raw)), Len(Tail(raw)))
\* filepath.Dir: the path up to its last separator, "." when there is none
FilepathDir(p) ==
    IF LastSlash(p) = 0 THEN << "." >>
    ELSE IF LastSlash(p) = 1 THEN << "/" >>
    ELSE SubSeq(p, 1, LastSlash(p) - 1)
\* filepath.Base: the last element of the path
FilepathBase(p) ==
    IF Len(p) = 0 THEN << "." >>
    ELSE SubSeq(p, LastSlash(p) + 1, Len(p))
\* filepath.Join(dir, name)
FilepathJoin(dir, name) ==
    IF dir = << "/" >> THEN dir \o name ELSE dir \o << "/" >> \o name

(***************************************************************************)
(* Inputs of the model.                                                    *)
(***************************************************************************)
cacheProtocolFile == "file"
cacheProtocolAzBlob == "azblob"

\* cache locations handed to SetCache
Locations ==
    { << "d", "/", "f" >>,
      << "file://", "d", "/", "f" >>,
      << "azblob://", "h" >>,
      << "azblob://", "h", "/", "c" >>,
      << "azblob://", "h", "/", "c", "/", "b" >> }
\* cache tags handed to SetCache (nil: the tag is not enforced)
ConfigTags == { Nil, Ptr("v2") }
\* tags found in persisted records
RecordTags == { Nil, Ptr("v1"), Ptr("v2") }
\* names of the metric lists registered with the collector
Registered == { "m1", "m2" }
\* metric states a collection run can produce
MetricStates ==
    { [m1 |-> [List |-> Ptr(<< 1 >>)],    m2 |-> [List |-> Ptr(<< >>)]],
      [m1 |-> [List |-> Ptr(<< 2, 1 >>)], m2 |-> [List |-> Ptr(<< 1 >>)]] }

(***************************************************************************)
(* State.                                                                  *)
(***************************************************************************)
VARIABLES
    now,                  \* the wall clock (time.Now)
    pc,                   \* position of the collector process
    cache,                \* c.cache: *cacheSpecDef
    data,                 \* c.data: Created, Expiry, Tag, Metrics
    scrapeTime,           \* c.scrapeTime: *time.Duration
    sleepTime,            \* c.sleepTime: *time.Duration
    lastScrapeTime,       \* c.lastScrapeTime: *time.Time
    collectionStartTime,  \* c.collectionStartTime: time.Time
    sleepUntil,           \* instant the scheduler's sleep ends
    content,              \* the byte buffer cacheStore is writing
    written,              \* chunks of content os.WriteFile has written
    files,                \* filesystem: path -> contents of the file, if any
    dirs,                 \* filesystem: the directories that exist
    blobs,                \* object store: contents of the configured blob
    lastSetCache,         \* history: the last SetCache call and its outcome
    lastRestore,          \* history: the last collectionRestoreCache call
    lastSave,             \* history: the last collectionSaveCache call
    lastStore             \* history: the last cacheStore call

collVars == << now, pc, cache, data, scrapeTime, sleepTime, lastScrapeTime,
               collectionStartTime, sleepUntil, content, written, files, dirs,
               blobs, lastSetCache, lastRestore, lastSave, lastStore >>

(***************************************************************************)
(* Snapshot bytes.  A byte buffer is the JSON document it spells (json is  *)
(* nil when the bytes are not JSON) and the number of chunks of it that    *)
(* are there; the buffer is complete when all Chunks are.                  *)
(***************************************************************************)
Bytes(doc) == [json |-> Ptr(doc), len |-> Chunks]
Garbage == [json |-> Nil, len |-> Chunks]
\* the first n chunks of a buffer
Prefix(b, n) == [json |-> b.json, len |-> n]

\* NewCollectorData: an empty record
NewCollectorData == [Created |-> Nil, Expiry |-> Nil, Tag |-> Nil, Metrics |-> << >>]

\* (mutation) the metric lists are not serialized
jsonMarshalNoMetrics(d) ==
    [err |-> FALSE,
     out |-> Bytes([created |-> d.Created, expiry |-> d.Expiry, tag |-> d.Tag,
                    metrics |-> << >>])]

\* json.Marshal(c.data): the document with fields created, expiry, tag and
\* metrics; a nil pointer is written as null, a list as the array of its rows
jsonMarshal(d) ==
    [err |-> FALSE,
     out |-> Bytes([created |-> d.Created,
                    expiry  |-> d.Expiry,
                    tag     |-> d.Tag,
                    metrics |-> [n \in DOMAIN d.Metrics |-> [list |-> d.Metrics[n].List]]])]

\* json.Unmarshal(bytes, &restoredData) into a NewCollectorData(): fails on
\* bytes that are not one complete JSON document; a null or missing field
\* leaves the field of the target as it is
jsonUnmarshal(b, into) ==
    IF b.len # Chunks \/ b.json = Nil
    THEN [err |-> TRUE, val |-> into]
    ELSE LET doc == Deref(b.json) IN
         [err |-> FALSE,
          val |-> [Created |-> IF doc.created = Nil THEN into.Created ELSE doc.created,
                   Expiry  |-> IF doc.expiry = Nil THEN into.Expiry ELSE doc.expiry,
                   Tag     |-> IF doc.tag = Nil THEN into.Tag ELSE doc.tag,
                   Metrics |-> [n \in DOMAIN doc.metrics |-> [List |-> doc.metrics[n].list]]]]

(***************************************************************************)
(* SetCache.                                                               *)
(***************************************************************************)
\* the cacheSpecDef SetCache starts from
NewCacheSpecDef(rawSpec, cacheTag) ==
    [raw |-> rawSpec, spec |-> << >>, tag |-> cacheTag, protocol |-> "", client |-> FALSE]

\* SetCache(&rawSpec, cacheTag): the cacheSpecDef left in c.cache and whether
\* the call panicked.  azureEnvironment: AZURE_ENVIRONMENT is set;
\* clientErr: azblob.NewClient fails
SetCacheOutcome(rawSpec, cacheTag, azureEnvironment, clientErr) ==
    LET def == NewCacheSpecDef(rawSpec, cacheTag)
        blobDef == [def EXCEPT !.protocol = cacheProtocolAzBlob]
        pathParts == SplitN2(UrlPath(rawSpec))
    IN  IF HasPrefix(rawSpec, "file://")
        THEN [panic |-> FALSE,
              cache |-> [def EXCEPT !.protocol = cacheProtocolFile,
                                    !.spec = ("file:path" :> TrimPrefix(rawSpec, "file://"))]]
        ELSE IF HasPrefix(rawSpec, "azblob://")
        THEN IF ~azureEnvironment
             THEN [panic |-> TRUE, cache |-> blobDef]
             ELSE IF Len(pathParts) < 2
             THEN [panic |-> TRUE, cache |-> blobDef]
             ELSE LET parsed == [blobDef EXCEPT !.spec = ("azblob:container" :> pathParts[1])
                                                      @@ ("azblob:blob" :> pathParts[2])]
                  IN  IF clientErr
                      THEN [panic |-> TRUE, cache |-> parsed]
                      ELSE [panic |-> FALSE, cache |-> [parsed EXCEPT !.client = TRUE]]
        ELSE [panic |-> FALSE,
              cache |-> [def EXCEPT !.protocol = cacheProtocolFile,
                                    !.spec = ("file:path" :> rawSpec)]]

(***************************************************************************)
(* Storage.                                                                *)
(***************************************************************************)
EmptyBytes == [json |-> Nil, len |-> 0]
\* what a file holds after n chunks of buffer b were written to it
Written(b, n) == IF n = 0 THEN EmptyBytes ELSE Prefix(b, n)

\* (mutation) the content is written to the destination itself
TmpFilePathInPlace(filePath) == filePath

\* the temporary file of cacheStore: ".<base>.tmp" in the directory of filePath
TmpFilePath(filePath) ==
    FilepathJoin(FilepathDir(filePath), << "." >> \o FilepathBase(filePath) \o << ".tmp" >>)

\* the file paths the locations resolve to, and the paths of the filesystem
FilePaths ==
    { SetCacheOutcome(l, Nil, TRUE, FALSE).cache.spec["file:path"] :
        l \in { x \in Locations : ~HasPrefix(x, "azblob://") } }
FsPaths == FilePaths \cup { TmpFilePath(p) : p \in FilePaths }
\* the blobs of the object store: << container, blob >>
BlobKeys ==
    { << SetCacheOutcome(l, Nil, TRUE, FALSE).cache.spec["azblob:container"],
         SetCacheOutcome(l, Nil, TRUE, FALSE).cache.spec["azblob:blob"] >> :
        l \in { x \in Locations : HasPrefix(x, "azblob://")
                                  /\ ~SetCacheOutcome(x, Nil, TRUE, FALSE).panic } }
BlobKey(c) == << c.spec["azblob:container"], c.spec["azblob:blob"] >>

\* what the configured location holds: the file, or the blob
Stored(c, fs, bl) ==
    IF c.protocol = cacheProtocolFile THEN fs[c.spec["file:path"]] ELSE bl[BlobKey(c)]

\* cacheRead for the file protocol: << content, exists >>.  os.Stat says
\* whether the file is there; the error of os.ReadFile is dropped, so a
\* failed read (readErr) yields no bytes and exists = true
cacheReadFile(c, fs, readErr) ==
    LET filePath == c.spec["file:path"] IN
    IF fs[filePath] # Nil
    THEN [content |-> IF readErr THEN EmptyBytes ELSE Deref(fs[filePath]), exists |-> TRUE]
    ELSE [content |-> EmptyBytes, exists |-> FALSE]

\* cacheRead for the azblob protocol: any error of DownloadStream or of
\* io.ReadAll (readErr, or the blob is not there) yields (nil, false)
cacheReadAzBlob(c, bl, readErr) ==
    IF bl[BlobKey(c)] # Nil /\ ~readErr
    THEN [content |-> Deref(bl[BlobKey(c)]), exists |-> TRUE]
    ELSE [content |-> EmptyBytes, exists |-> FALSE]

\* cacheRead
cacheRead(c, fs, bl, readErr) ==
    IF c.protocol = cacheProtocolFile THEN cacheReadFile(c, fs, readErr)
    ELSE IF c.protocol = cacheProtocolAzBlob THEN cacheReadAzBlob(c, bl, readErr)
    ELSE [content |-> EmptyBytes, exists |-> FALSE]

(***************************************************************************)
(* collectionRestoreCache.                                                 *)
(***************************************************************************)
\* the safety margin added to the time until expiry: 1*time.Minute
Margin == 1

\* MetricList.Init: prepares the list for use, the rows stay
MetricListInit(m) == m

\* (mutation) a record without a tag passes the tag check
cacheTagMismatchNilOk(c, restoredData) ==
    /\ c.tag # Nil
    /\ restoredData.Tag # Nil
    /\ to_String(c.tag) # to_String(restoredData.Tag)

\* (mutation) the tags are compared although no tag is configured
cacheTagMismatchUnconfigured(c, restoredData) ==
    \/ restoredData.Tag = Nil
    \/ to_String(c.tag) # to_String(restoredData.Tag)

\* the tag check: a tag is configured and the record's tag is nil or differs
cacheTagMismatch(c, restoredData) ==
    /\ c.tag # Nil
    /\ \/ restoredData.Tag = Nil
       \/ to_String(c.tag) # to_String(restoredData.Tag)

\* (mutation) a record that expires right now is still taken
cacheNotExpiredInclusive(restoredData, t) ==
    restoredData.Expiry # Nil /\ Deref(restoredData.Expiry) >= t

\* the expiry check: restoredData.Expiry != nil && Expiry.After(time.Now())
cacheNotExpired(restoredData, t) ==
    restoredData.Expiry # Nil /\ Deref(restoredData.Expiry) > t

\* (mutation) a nil list of the record replaces the live list as well
restoreMetricsNoNilCheck(live, restored) ==
    [name \in DOMAIN live |->
        IF name \in DOMAIN restored
        THEN MetricListInit([live[name] EXCEPT !.List = restored[name].List])
        ELSE live[name]]

\* the merge loop: a list of the record that is not nil replaces the live
\* list of the same name, if the collector has one
restoreMetrics(live, restored) ==
    [name \in DOMAIN live |->
        IF name \in DOMAIN restored /\ restored[name].List # Nil
        THEN MetricListInit([live[name] EXCEPT !.List = restored[name].List])
        ELSE live[name]]

\* (mutation) the sleep time is not clamped to the scrape time
restoreSleepTimeUnclamped(expiry, t, scrape, sleep) ==
    Ptr((Deref(expiry) - t) + Margin)

\* the sleep time after a restore: time.Until(expiry) + 1 minute, taken only
\* when a scrape time is configured and the sum is below it
restoreSleepTime(expiry, t, scrape, sleep) ==
    LET st == (Deref(expiry) - t) + Margin IN
    IF scrape # Nil /\ st < Deref(scrape) THEN Ptr(st) ELSE sleep

\* (mutation) the lists are merged before the expiry is checked
collectionRestoreCacheEarlyMerge(c, d, sleep, scrape, lastScrape, rd, t1, t2) ==
    LET unchanged == [ret |-> FALSE, panic |-> FALSE, data |-> d, sleepTime |-> sleep,
                      lastScrapeTime |-> lastScrape]
        um == jsonUnmarshal(rd.content, NewCollectorData)
        restoredData == um.val
        merged == [d EXCEPT !.Metrics = restoreMetrics(d.Metrics, restoredData.Metrics)]
    IN  IF ~rd.exists THEN unchanged
        ELSE IF um.err THEN unchanged
        ELSE IF cacheTagMismatch(c, restoredData) THEN unchanged
        ELSE IF cacheNotExpired(restoredData, t1)
        THEN [ret |-> TRUE, panic |-> FALSE,
              data |-> [merged EXCEPT !.Expiry = restoredData.Expiry],
              sleepTime |-> restoreSleepTime(restoredData.Expiry, t2, scrape, sleep),
              lastScrapeTime |-> IF restoredData.Created # Nil
                                 THEN restoredData.Created ELSE lastScrape]
        ELSE [unchanged EXCEPT !.data = merged]

\* (mutation) the expiry of the record is taken before it is checked
collectionRestoreCacheEarlyExpiry(c, d, sleep, scrape, lastScrape, rd, t1, t2) ==
    LET unchanged == [ret |-> FALSE, panic |-> FALSE, data |-> d, sleepTime |-> sleep,
                      lastScrapeTime |-> lastScrape]
        um == jsonUnmarshal(rd.content, NewCollectorData)
        restoredData == um.val
    IN  IF ~rd.exists THEN unchanged
        ELSE IF um.err THEN unchanged
        ELSE IF cacheTagMismatch(c, restoredData) THEN unchanged
        ELSE IF cacheNotExpired(restoredData, t1)
        THEN [ret |-> TRUE, panic |-> FALSE,
              data |-> [d EXCEPT !.Expiry = restoredData.Expiry,
                                 !.Metrics = restoreMetrics(d.Metrics, restoredData.Metrics)],
              sleepTime |-> restoreSleepTime(restoredData.Expiry, t2, scrape, sleep),
              lastScrapeTime |-> IF restoredData.Created # Nil
                                 THEN restoredData.Created ELSE lastScrape]
        ELSE [unchanged EXCEPT !.data = [d EXCEPT !.Expiry = restoredData.Expiry]]

\* (mutation) a snapshot that cannot be decoded is fatal
collectionRestoreCacheFatalDecode(c, d, sleep, scrape, lastScrape, rd, t1, t2) ==
    LET unchanged == [ret |-> FALSE, panic |-> FALSE, data |-> d, sleepTime |-> sleep,
                      lastScrapeTime |-> lastScrape]
        um == jsonUnmarshal(rd.content, NewCollectorData)
        restoredData == um.val
    IN  IF ~rd.exists THEN unchanged
        ELSE IF um.err THEN [unchanged EXCEPT !.panic = TRUE]
        ELSE IF cacheTagMismatch(c, restoredData) THEN unchanged
        ELSE IF cacheNotExpired(restoredData, t1)
        THEN [ret |-> TRUE, panic |-> FALSE,
              data |-> [d EXCEPT !.Expiry = restoredData.Expiry,
                                 !.Metrics = restoreMetrics(d.Metrics, restoredData.Metrics)],
              sleepTime |-> restoreSleepTime(restoredData.Expiry, t2, scrape, sleep),
              lastScrapeTime |-> IF restoredData.Created # Nil
                                 THEN restoredData.Created ELSE lastScrape]
        ELSE unchanged

\* collectionRestoreCache with c.cache = c, on the result rd of cacheRead;
\* t1 is time.Now() of the expiry check, t2 the one of time.Until.  The
\* function has no fatal path: panic is false on every branch
collectionRestoreCache(c, d, sleep, scrape, lastScrape, rd, t1, t2) ==
    LET unchanged == [ret |-> FALSE, panic |-> FALSE, data |-> d, sleepTime |-> sleep,
                      lastScrapeTime |-> lastScrape]
        um == jsonUnmarshal(rd.content, NewCollectorData)
        restoredData == um.val
    IN  IF ~rd.exists THEN unchanged
        ELSE IF um.err THEN unchanged
        ELSE IF cacheTagMismatch(c, restoredData) THEN unchanged
        ELSE IF cacheNotExpired(restoredData, t1)
        THEN [ret |-> TRUE, panic |-> FALSE,
              data |-> [d EXCEPT !.Expiry = restoredData.Expiry,
                                 !.Metrics = restoreMetrics(d.Metrics, restoredData.Metrics)],
              sleepTime |-> restoreSleepTime(restoredData.Expiry, t2, scrape, sleep),
              lastScrapeTime |-> IF restoredData.Created # Nil
                                 THEN restoredData.Created ELSE lastScrape]
        ELSE unchanged

(***************************************************************************)
(* The collector process.                                                  *)
(***************************************************************************)
\* the metric lists of a new collector: every registered list, empty
NewMetrics == [name \in Registered |-> [List |-> Ptr(<< >>)]]

NoCall == [ran |-> FALSE]

\* (mutation) the expiry is counted from the start of the collection run
saveExpiryTimeFromStart(t, sleep, start) == start + Deref(sleep)

\* expiryTime := time.Now().Add(*c.sleepTime)
saveExpiryTime(t, sleep, start) == t + Deref(sleep)

\* c.data as collectionSaveCache fills it before it is serialized
saveData(d, c, t, sleep, start) ==
    [d EXCEPT !.Created = Ptr(start),
              !.Expiry = Ptr(saveExpiryTime(t, sleep, start)),
              !.Tag = c.tag]


\* the saves an earlier process can have completed at the location: the
\* metric state, the configured tag, the start of the run and the time of
\* the save
PriorSaves ==
    { [ran |-> TRUE, stored |-> TRUE, tag |-> tg, at |-> 0, start |-> 0,
       sleep |-> Ptr(ScrapeInterval), metrics |-> m,
       bytes |-> jsonMarshal(saveData([NewCollectorData EXCEPT !.Metrics = m], [tag |-> tg],
                                      0, Ptr(ScrapeInterval), 0)).out] :
        tg \in ConfigTags, m \in MetricStates }
\* records other programs or versions can have left at the location
ForeignDocs ==
    { [created |-> Ptr(0), expiry |-> Ptr(ScrapeInterval), tag |-> Ptr("v1"),
       metrics |-> [m1 |-> [list |-> Ptr(<< 2 >>)], m2 |-> [list |-> Ptr(<< 1, 2 >>)]]],
      [created |-> Ptr(0), expiry |-> Nil, tag |-> Ptr("v2"),
       metrics |-> [m1 |-> [list |-> Ptr(<< 2 >>)], m2 |-> [list |-> Ptr(<< 1, 2 >>)]]],
      [created |-> Nil, expiry |-> Ptr(ScrapeInterval), tag |-> Ptr("v2"),
       metrics |-> [m1 |-> [list |-> Ptr(<< 2 >>)], m2 |-> [list |-> Nil],
                    m3 |-> [list |-> Ptr(<< 1 >>)]]] }
\* what the storage location holds when the process starts, with the save
\* that wrote it, if one did
Planted ==
    { [snapshot |-> Nil, save |-> NoCall], [snapshot |-> Ptr(Garbage), save |-> NoCall] }
    \cup { [snapshot |-> Ptr(Bytes(doc)), save |-> NoCall] : doc \in ForeignDocs }
    \cup { [snapshot |-> Ptr(sv.bytes), save |-> sv] : sv \in PriorSaves }

CollInit ==
    /\ now = 0
    /\ pc = "new"
    /\ cache = Nil
    /\ data = [NewCollectorData EXCEPT !.Metrics = NewMetrics]
    /\ scrapeTime = Ptr(ScrapeInterval)
    /\ sleepTime = Ptr(ScrapeInterval)
    /\ lastScrapeTime = Nil
    /\ collectionStartTime = 0
    /\ sleepUntil = 0
    /\ content = EmptyBytes
    /\ written = 0
    /\ \E pl \in Planted :
         /\ files = [p \in FsPaths |-> IF p \in FilePaths THEN pl.snapshot ELSE Nil]
         /\ blobs = [k \in BlobKeys |-> pl.snapshot]
         /\ \E ds \in SUBSET { FilepathDir(p) : p \in FilePaths } :
              /\ pl.snapshot # Nil => ds = { FilepathDir(p) : p \in FilePaths }
              /\ dirs = ds
         /\ lastSave = pl.save
    /\ lastSetCache = NoCall
    /\ lastRestore = NoCall
    /\ lastStore = NoCall

\* time passes.  The clock is read at the start of the process, during a
\* collection run and by the scheduler's sleep, so it moves there
Tick ==
    /\ pc \in { "new", "collecting", "restored", "sleeping" }
    /\ now < MaxTime
    /\ now' = now + 1
    /\ UNCHANGED << pc, cache, data, scrapeTime, sleepTime, lastScrapeTime,
                    collectionStartTime, sleepUntil, content, written, files, dirs,
                    blobs, lastSetCache, lastRestore, lastSave, lastStore >>

\* SetCache(&rawSpec, cacheTag) (also EnableCache) on a new collector
SetCache ==
    /\ pc = "new"
    /\ \E rawSpec \in Locations, cacheTag \in ConfigTags,
          azureEnvironment \in BOOLEAN, clientErr \in BOOLEAN :
         LET out == SetCacheOutcome(rawSpec, cacheTag, azureEnvironment, clientErr) IN
         /\ cache' = Ptr(out.cache)
         /\ pc' = IF out.panic THEN "panic" ELSE "configured"
         /\ lastSetCache' = [ran |-> TRUE, rawSpec |-> rawSpec, panic |-> out.panic,
                              off |-> FALSE]
    /\ UNCHANGED << now, data, scrapeTime, sleepTime, lastScrapeTime,
                    collectionStartTime, sleepUntil, content, written, files, dirs,
                    blobs, lastRestore, lastSave, lastStore >>

\* (mutation) the configured cache stays
DisableCacheKeepsCache ==
    /\ pc \in { "new", "configured" }
    /\ cache' = cache
    /\ pc' = "configured"
    /\ lastSetCache' = [ran |-> TRUE, rawSpec |-> << >>, panic |-> FALSE, off |-> TRUE]
    /\ UNCHANGED << now, data, scrapeTime, sleepTime, lastScrapeTime,
                    collectionStartTime, sleepUntil, content, written, files, dirs,
                    blobs, lastRestore, lastSave, lastStore >>

\* SetCache(nil, _) and DisableCache: caching is off
DisableCache ==
    /\ pc \in { "new", "configured" }
    /\ cache' = Nil
    /\ pc' = "configured"
    /\ lastSetCache' = [ran |-> TRUE, rawSpec |-> << >>, panic |-> FALSE, off |-> TRUE]
    /\ UNCHANGED << now, data, scrapeTime, sleepTime, lastScrapeTime,
                    collectionStartTime, sleepUntil, content, written, files, dirs,
                    blobs, lastRestore, lastSave, lastStore >>

\* collectionRestoreCache at the start of the process.  After a restore the
\* scheduler sleeps the sleep time before the first collection run
Restore ==
    /\ pc = "configured"
    /\ \E readErr \in BOOLEAN, t2 \in { now, now + 1 } :
         /\ t2 <= MaxTime
         /\ LET rd == IF cache = Nil THEN [content |-> EmptyBytes, exists |-> FALSE]
                      ELSE cacheRead(Deref(cache), files, blobs, readErr)
                out == IF cache = Nil
                       THEN [ret |-> FALSE, panic |-> FALSE, data |-> data,
                             sleepTime |-> sleepTime, lastScrapeTime |-> lastScrapeTime]
                       ELSE collectionRestoreCache(Deref(cache), data, sleepTime, scrapeTime,
                                                   lastScrapeTime, rd, now, t2)
            IN  /\ data' = out.data
                /\ sleepTime' = out.sleepTime
                /\ lastScrapeTime' = out.lastScrapeTime
                /\ now' = IF out.ret THEN t2 ELSE now
                /\ pc' = IF out.panic THEN "panic"
                         ELSE IF out.ret THEN "restored" ELSE "idle"
                /\ sleepUntil' = IF out.ret THEN t2 + Deref(out.sleepTime) ELSE sleepUntil
                /\ lastRestore' = [ran |-> TRUE, ret |-> out.ret, cache |-> cache, read |-> rd,
                                   tNow |-> now, tUntil |-> t2,
                                   pre |-> [data |-> data, sleepTime |-> sleepTime,
                                            lastScrapeTime |-> lastScrapeTime]]
    /\ UNCHANGED << cache, scrapeTime, collectionStartTime, content, written, files,
                    dirs, blobs, lastSetCache, lastSave, lastStore >>

\* the scheduler starts a collection run: the run's start time is taken and
\* the sleep after the run is the configured scrape time again
StartCycle ==
    /\ \/ pc = "idle"
       \/ pc \in { "restored", "sleeping" } /\ now >= sleepUntil
    /\ collectionStartTime' = now
    /\ sleepTime' = scrapeTime
    /\ pc' = "collecting"
    /\ UNCHANGED << now, cache, data, scrapeTime, lastScrapeTime, sleepUntil, content,
                    written, files, dirs, blobs, lastSetCache, lastRestore,
                    lastSave, lastStore >>

\* the collection run fills the registered metric lists
Collect ==
    /\ pc = "collecting"
    /\ \E m \in MetricStates : data' = [data EXCEPT !.Metrics = m]
    /\ pc' = "collected"
    /\ UNCHANGED << now, cache, scrapeTime, sleepTime, lastScrapeTime,
                    collectionStartTime, sleepUntil, content, written, files, dirs,
                    blobs, lastSetCache, lastRestore, lastSave, lastStore >>

(***************************************************************************)
(* collectionSaveCache and cacheStore.                                     *)
(***************************************************************************)
\* the scheduler's sleep after a collection run
Sleep(t, sleep) == t + Deref(sleep)

\* collectionSaveCache up to its call of cacheStore
Save ==
    /\ pc = "collected"
    /\ IF cache = Nil
       THEN /\ pc' = "sleeping"
            /\ sleepUntil' = Sleep(now, sleepTime)
            /\ lastSave' = [ran |-> TRUE, stored |-> FALSE, tag |-> Nil, at |-> now,
                            start |-> collectionStartTime, sleep |-> sleepTime,
                            metrics |-> data.Metrics, bytes |-> EmptyBytes]
            /\ UNCHANGED << data, content, lastStore >>
       ELSE LET d == saveData(data, Deref(cache), now, sleepTime, collectionStartTime)
                jsonData == jsonMarshal(d)
            IN  /\ data' = d
                /\ lastSave' = [ran |-> TRUE, stored |-> FALSE, tag |-> Deref(cache).tag,
                                at |-> now,
                                start |-> collectionStartTime, sleep |-> sleepTime,
                                metrics |-> data.Metrics,
                                bytes |-> IF jsonData.err THEN EmptyBytes ELSE jsonData.out]
                /\ IF jsonData.err
                   THEN /\ pc' = "sleeping"
                        /\ sleepUntil' = Sleep(now, sleepTime)
                        /\ UNCHANGED << content, lastStore >>
                   ELSE /\ pc' = "cacheStore"
                        /\ content' = jsonData.out
                        /\ lastStore' = [ran |-> TRUE, done |-> FALSE, cache |-> cache,
                                         content |-> jsonData.out,
                                         before |-> Stored(Deref(cache), files, blobs),
                                         dirs |-> dirs]
                        /\ UNCHANGED sleepUntil
    /\ UNCHANGED << now, cache, scrapeTime, sleepTime, lastScrapeTime,
                    collectionStartTime, written, files, dirs, blobs,
                    lastSetCache, lastRestore >>

\* cacheStore returned: collectionSaveCache logs and the scheduler sleeps
StoreDone ==
    /\ pc' = "sleeping"
    /\ sleepUntil' = Sleep(now, sleepTime)
    /\ lastStore' = [lastStore EXCEPT !.done = TRUE]
    /\ lastSave' = [lastSave EXCEPT !.stored = TRUE]

\* cacheStore panicked
StorePanic ==
    /\ pc' = "panic"
    /\ UNCHANGED << sleepUntil, lastStore, lastSave >>

\* (mutation) the directory is not created
StoreEnsureDirSkipped ==
    /\ pc = "cacheStore"
    /\ Deref(cache).protocol = cacheProtocolFile
    /\ pc' = "writeFile"
    /\ UNCHANGED << now, cache, data, scrapeTime, sleepTime, lastScrapeTime,
                    collectionStartTime, sleepUntil, content, written, files, dirs, blobs,
                    lastSetCache, lastRestore, lastSave, lastStore >>

\* cacheStore, file protocol: os.Stat(dirPath), and os.Mkdir if it is not there
StoreEnsureDir ==
    /\ pc = "cacheStore"
    /\ Deref(cache).protocol = cacheProtocolFile
    /\ LET dirPath == FilepathDir(Deref(cache).spec["file:path"]) IN
       \E ok \in BOOLEAN :
         IF dirPath \in dirs
         THEN pc' = "writeFile" /\ UNCHANGED dirs
         ELSE IF ok
              THEN pc' = "writeFile" /\ dirs' = dirs \cup { dirPath }
              ELSE pc' = "panic" /\ UNCHANGED dirs
    /\ UNCHANGED << now, cache, data, scrapeTime, sleepTime, lastScrapeTime,
                    collectionStartTime, sleepUntil, content, written, files, blobs,
                    lastSetCache, lastRestore, lastSave, lastStore >>

\* os.WriteFile(tmpFilePath, ...): the file is created or truncated
StoreOpenTmp ==
    /\ pc = "writeFile"
    /\ LET tmpFilePath == TmpFilePath(Deref(cache).spec["file:path"]) IN
       \E ok \in BOOLEAN :
         IF ok
         THEN /\ files' = [files EXCEPT ![tmpFilePath] = Ptr(EmptyBytes)]
              /\ written' = 0
              /\ pc' = "writing"
         ELSE /\ pc' = "panic"
              /\ UNCHANGED << files, written >>
    /\ UNCHANGED << now, cache, data, scrapeTime, sleepTime, lastScrapeTime,
                    collectionStartTime, sleepUntil, content, dirs, blobs,
                    lastSetCache, lastRestore, lastSave, lastStore >>

\* os.WriteFile(tmpFilePath, ...): the next chunk of the content is written
StoreWriteChunk ==
    /\ pc = "writing"
    /\ written < Chunks
    /\ LET tmpFilePath == TmpFilePath(Deref(cache).spec["file:path"]) IN
       \E ok \in BOOLEAN :
         IF ok
         THEN /\ files' = [files EXCEPT ![tmpFilePath] = Ptr(Written(content, written + 1))]
              /\ written' = written + 1
              /\ pc' = IF written + 1 = Chunks THEN "rename" ELSE "writing"
         ELSE /\ pc' = "panic"
              /\ UNCHANGED << files, written >>
    /\ UNCHANGED << now, cache, data, scrapeTime, sleepTime, lastScrapeTime,
                    collectionStartTime, sleepUntil, content, dirs, blobs,
                    lastSetCache, lastRestore, lastSave, lastStore >>

\* (mutation) the temporary file is copied to the destination and stays
StoreRenameCopy ==
    /\ pc = "rename"
    /\ LET filePath == Deref(cache).spec["file:path"]
           tmpFilePath == TmpFilePath(filePath)
       IN \E ok \in BOOLEAN :
            IF ok
            THEN /\ files' = [files EXCEPT ![filePath] = files[tmpFilePath]]
                 /\ StoreDone
            ELSE /\ UNCHANGED files
                 /\ StorePanic
    /\ UNCHANGED << now, cache, data, scrapeTime, sleepTime, lastScrapeTime,
                    collectionStartTime, content, written, dirs, blobs,
                    lastSetCache, lastRestore >>

\* os.Rename(tmpFilePath, filePath)
StoreRename ==
    /\ pc = "rename"
    /\ LET filePath == Deref(cache).spec["file:path"]
           tmpFilePath == TmpFilePath(filePath)
       IN \E ok \in BOOLEAN :
            IF ok
            THEN /\ files' = IF tmpFilePath = filePath THEN files
                             ELSE [files EXCEPT ![filePath] = files[tmpFilePath],
                                                ![tmpFilePath] = Nil]
                 /\ StoreDone
            ELSE /\ UNCHANGED files
                 /\ StorePanic
    /\ UNCHANGED << now, cache, data, scrapeTime, sleepTime, lastScrapeTime,
                    collectionStartTime, content, written, dirs, blobs,
                    lastSetCache, lastRestore >>

\* cacheStore, azblob protocol: UploadBuffer overwrites the blob
StoreUpload ==
    /\ pc = "cacheStore"
    /\ Deref(cache).protocol = cacheProtocolAzBlob
    /\ \E ok \in BOOLEAN :
         IF ok
         THEN /\ blobs' = [blobs EXCEPT ![BlobKey(Deref(cache))] = Ptr(content)]
              /\ StoreDone
         ELSE /\ UNCHANGED blobs
              /\ StorePanic
    /\ UNCHANGED << now, cache, data, scrapeTime, sleepTime, lastScrapeTime,
                    collectionStartTime, content, written, files, dirs,
                    lastSetCache, lastRestore >>

CollNext ==
    \/ Tick
    \/ SetCache
    \/ DisableCache
    \/ Restore
    \/ StartCycle
    \/ Collect
    \/ Save
    \/ StoreEnsureDir
    \/ StoreOpenTmp
    \/ StoreWriteChunk
    \/ StoreRename
    \/ StoreUpload


(***************************************************************************)
(* The TTL lookup cache of ArmClient.  Its clock counts half hours.  An    *)
(* entry of the cache is the cached object and its expiration, nil for an  *)
(* entry that never expires.                                               *)
(***************************************************************************)
VARIABLES
    clock,      \* the wall clock of the client (time.Now)
    armCache,   \* azureClient.cache: key -> entry, if any
    cacheTtl,   \* azureClient.cacheTtl
    fetched,    \* history: key -> the last object stored for it, when, with which ttl
    lastCall    \* history: the cached lookup that has just returned, if one has

armVars == << clock, armCache, cacheTtl, fetched, lastCall >>

\* last instant of the client's clock
MaxClock == 4
\* client.cacheTtl = 30 * time.Minute
DefaultCacheTtl == 1
\* cache.New(60*time.Minute, ...): the default expiration of the cache
DefaultExpiration == 2

\* the subscriptions whose resource groups are looked up
Subscriptions == { "s1" }
\* the identifiers cacheData is called with
Identifiers == { << "id1" >> }
\* cacheKey := "resourcegroups:" + subscriptionID
ResourceGroupsKey(subscriptionID) == << "resourcegroups:", subscriptionID >>
ArmKeys == { ResourceGroupsKey(sub) : sub \in Subscriptions } \cup Identifiers
\* the durations SetCacheTtl is called with
TtlInputs == { -1, 0, 2, 3 }
\* the errors a producer can return
Errors == { "e1", "e2" }
\* to.StringLower of the resource group names
Lower(name) == IF name = "RG1" THEN "rg1" ELSE name
\* the pages the resource group pager can deliver; the Value of a page can be nil
PageSeqs ==
    { << Ptr({ "RG1" }) >>,
      << Ptr({ "RG1" }), Ptr({ "rg2" }) >>,
      << Nil, Ptr({ "rg2" }) >> }
\* the objects a callback of cacheData can return
CallbackObjects == { [type |-> "any", val |-> "a"], [type |-> "any", val |-> "b"] }

\* (mutation) a lapsed entry is found until the janitor has deleted it
goCacheGetUnpurged(c, k, t) ==
    IF c[k] = Nil THEN [ok |-> FALSE, v |-> Nil]
    ELSE [ok |-> TRUE, v |-> Ptr(Deref(c[k]).Object)]

\* cache.Get: the object of a key, unless there is none or it has lapsed
goCacheGet(c, k, t) ==
    IF c[k] = Nil THEN [ok |-> FALSE, v |-> Nil]
    ELSE IF Deref(c[k]).Expiration # Nil /\ t > Deref(Deref(c[k]).Expiration)
    THEN [ok |-> FALSE, v |-> Nil]
    ELSE [ok |-> TRUE, v |-> Ptr(Deref(c[k]).Object)]

\* cache.Set: the duration 0 stands for the default expiration of the cache;
\* an entry stored with a duration that is not positive never expires
goCacheSet(c, k, x, d, t) ==
    LET dur == IF d = 0 THEN DefaultExpiration ELSE d IN
    [c EXCEPT ![k] = Ptr([Object |-> x,
                          Expiration |-> IF dur > 0 THEN Ptr(t + dur) ELSE Nil])]

\* cache.SetDefault
goCacheSetDefault(c, k, x, t) == goCacheSet(c, k, x, 0, t)

\* cache.DeleteExpired, run by the janitor of the cache
goCacheDeleteExpired(c, t) ==
    [k \in DOMAIN c |->
        IF c[k] # Nil /\ Deref(c[k]).Expiration # Nil /\ t > Deref(Deref(c[k]).Expiration)
        THEN Nil ELSE c[k]]

\* the rows of the pages 1..n
RECURSIVE PageRows(_, _)
PageRows(pages, n) ==
    IF n = 0 THEN {}
    ELSE PageRows(pages, n - 1) \cup (IF pages[n] = Nil THEN {} ELSE Deref(pages[n]))

\* ListResourceGroups: the groups of all pages by lowercased name; nil and the
\* error when the client cannot be made (clientErr) or a page fetch fails
\* (failAt is the page whose fetch fails with error e, 0 for none)
ListResourceGroups(clientErr, pages, failAt, e) ==
    IF clientErr THEN [list |-> Nil, err |-> Ptr(e)]
    ELSE IF failAt \in 1..Len(pages) THEN [list |-> Nil, err |-> Ptr(e)]
    ELSE LET rows == PageRows(pages, Len(pages)) IN
         [list |-> Ptr([type |-> "resourcegroups",
                        val |-> [n \in { Lower(r) : r \in rows } |->
                                    CHOOSE r \in rows : Lower(r) = n]]),
          err |-> Nil]

\* (mutation) the cached object is asserted to be of another type
IsResourceGroupMapOther(v) == v.type = "groups"

\* v.(map[string]*armresources.ResourceGroup)
IsResourceGroupMap(v) == v.type = "resourcegroups"

\* ListCachedResourceGroups with the result produced of ListResourceGroups:
\* whether the producer was called, what is returned, the cache afterwards
ListCachedResourceGroups(c, ttl, subscriptionID, produced, t) ==
    LET cacheKey == ResourceGroupsKey(subscriptionID)
        got == goCacheGet(c, cacheKey, t)
    IN  IF got.ok /\ IsResourceGroupMap(Deref(got.v))
        THEN [called |-> FALSE, list |-> got.v, err |-> Nil, cache |-> c, set |-> Nil]
        ELSE IF produced.err # Nil
        THEN [called |-> TRUE, list |-> produced.list, err |-> produced.err, cache |-> c,
              set |-> Nil]
        ELSE [called |-> TRUE, list |-> produced.list, err |-> Nil,
              cache |-> goCacheSet(c, cacheKey, Deref(produced.list), ttl, t),
              set |-> Ptr(ttl)]

\* (mutation) the result of the callback is stored whether it failed or not
cacheDataStoreAlways(c, identifier, produced, t) ==
    LET got == goCacheGet(c, identifier, t) IN
    IF got.ok
    THEN [called |-> FALSE, list |-> got.v, err |-> Nil, cache |-> c, set |-> Nil]
    ELSE [called |-> TRUE, list |-> produced.list, err |-> produced.err,
          cache |-> goCacheSetDefault(c, identifier,
                                      IF produced.list = Nil
                                      THEN [type |-> "any", val |-> "nil"]
                                      ELSE Deref(produced.list), t),
          set |-> Ptr(DefaultExpiration)]

\* cacheData with the result produced of callback()
cacheData(c, identifier, produced, t) ==
    LET got == goCacheGet(c, identifier, t) IN
    IF got.ok
    THEN [called |-> FALSE, list |-> got.v, err |-> Nil, cache |-> c, set |-> Nil]
    ELSE IF produced.err = Nil
    THEN [called |-> TRUE, list |-> produced.list, err |-> produced.err,
          cache |-> goCacheSetDefault(c, identifier, Deref(produced.list), t),
          set |-> Ptr(DefaultExpiration)]
    ELSE [called |-> TRUE, list |-> produced.list, err |-> produced.err, cache |-> c,
          set |-> Nil]

ArmInit ==
    /\ clock = 0
    /\ armCache = [k \in ArmKeys |-> Nil]
    /\ cacheTtl = DefaultCacheTtl
    /\ fetched = [k \in ArmKeys |-> Nil]
    /\ lastCall = NoCall

\* time passes
ArmTick ==
    /\ clock < MaxClock
    /\ clock' = clock + 1
    /\ lastCall' = NoCall
    /\ UNCHANGED << armCache, cacheTtl, fetched >>

\* SetCacheTtl(ttl)
SetCacheTtl ==
    /\ \E ttl \in TtlInputs : cacheTtl' = ttl
    /\ lastCall' = NoCall
    /\ UNCHANGED << clock, armCache, fetched >>

\* the janitor of the cache deletes the lapsed entries
Janitor ==
    /\ armCache' = goCacheDeleteExpired(armCache, clock)
    /\ armCache' # armCache
    /\ lastCall' = NoCall
    /\ UNCHANGED << clock, cacheTtl, fetched >>

\* what a cached lookup leaves in the history
Called(op, k, produced, out) ==
    /\ armCache' = out.cache
    /\ fetched' = IF out.set = Nil THEN fetched
                  ELSE [fetched EXCEPT ![k] = Ptr([val |-> out.list, at |-> clock,
                                                   ttl |-> Deref(out.set)])]
    /\ lastCall' = [ran |-> TRUE, op |-> op, key |-> k, at |-> clock,
                    produced |-> produced, called |-> out.called,
                    list |-> out.list, err |-> out.err,
                    before |-> armCache, prior |-> fetched[k]]

\* a call of ListCachedResourceGroups(ctx, subscriptionID)
CallListCachedResourceGroups ==
    /\ \E sub \in Subscriptions, clientErr \in BOOLEAN, pages \in PageSeqs,
          failAt \in 0..2, e \in Errors :
         /\ failAt <= Len(pages)
         /\ (clientErr \/ failAt # 0) \/ e = "e1"
         /\ clientErr => failAt = 0
         /\ LET produced == ListResourceGroups(clientErr, pages, failAt, e) IN
            Called("ListCachedResourceGroups", ResourceGroupsKey(sub), produced,
                   ListCachedResourceGroups(armCache, cacheTtl, sub, produced, clock))
    /\ UNCHANGED << clock, cacheTtl >>

\* a call of cacheData(identifier, callback)
CallCacheData ==
    /\ \E identifier \in Identifiers,
          produced \in { [list |-> Ptr(o), err |-> Nil] : o \in CallbackObjects }
                       \cup { [list |-> Nil, err |-> Ptr(e)] : e \in Errors } :
         Called("cacheData", identifier, produced,
                cacheData(armCache, identifier, produced, clock))
    /\ UNCHANGED << clock, cacheTtl >>

ArmNext ==
    \/ ArmTick
    \/ SetCacheTtl
    \/ Janitor
    \/ CallListCachedResourceGroups
    \/ CallCacheData


(***************************************************************************)
(* The lookup cache of the autorest based azure.Client.  Its clock counts  *)
(* half hours, as the one of ArmClient does.                               *)
(***************************************************************************)
VARIABLES
    azClock,     \* the wall clock of the client (time.Now)
    azCache,     \* azureClient.cache: key -> entry, if any
    azCacheTtl,  \* azureClient.cacheTtl
    azLastCall   \* history: the cached lookup that has just returned, if one has

azVars == << azClock, azCache, azCacheTtl, azLastCall >>

\* cacheKey := "subscriptions"
SubscriptionsKey == << "subscriptions" >>
AzKeys == { SubscriptionsKey } \cup { ResourceGroupsKey(sub) : sub \in Subscriptions }
\* the pages the list operations can deliver: every page has rows
SubscriptionPages == { << << "s1" >> >>, << << "s1" >>, << "s2" >> >> }
GroupPages == { << << "RG1" >> >>, << << "RG1" >>, << "rg2" >> >> }

\* the rows of the pages 1..n, in their order
RECURSIVE IteratedRows(_, _)
IteratedRows(pages, n) ==
    IF n = 0 THEN << >> ELSE IteratedRows(pages, n - 1) \o pages[n]

\* the rows the loop over result.NotDone() has taken when it ends: all of
\* them, or those of the pages before the one whose fetch fails (failAt > 1),
\* where result.NextWithContext returns the error and the loop breaks
RowsTaken(pages, failAt) ==
    IteratedRows(pages, IF failAt = 0 THEN Len(pages) ELSE failAt - 1)

\* Client.ListSubscriptions: the empty list and the error when ListComplete
\* fails (failAt = 1); otherwise the rows taken, and no error
ClientListSubscriptions(pages, failAt, e) ==
    IF failAt = 1
    THEN [list |-> Ptr([type |-> "subscriptions", val |-> << >>]), err |-> Ptr(e)]
    ELSE [list |-> Ptr([type |-> "subscriptions", val |-> RowsTaken(pages, failAt)]),
          err |-> Nil]

\* Client.ListResourceGroups: the same, the rows by lowercased name
ClientListResourceGroups(pages, failAt, e) ==
    IF failAt = 1
    THEN [list |-> Ptr([type |-> "resourcegroups", val |-> << >>]), err |-> Ptr(e)]
    ELSE LET taken == RowsTaken(pages, failAt)
             rows == { taken[i] : i \in 1..Len(taken) }
         IN  [list |-> Ptr([type |-> "resourcegroups",
                            val |-> [n \in { Lower(r) : r \in rows } |->
                                        CHOOSE r \in rows : Lower(r) = n]]),
              err |-> Nil]

\* v.([]subscriptions.Subscription)
IsSubscriptionList(v) == v.type = "subscriptions"

\* Client.ListCachedSubscriptions with the result produced of ListSubscriptions
ClientListCachedSubscriptions(c, ttl, produced, t) ==
    LET got == goCacheGet(c, SubscriptionsKey, t) IN
    IF got.ok /\ IsSubscriptionList(Deref(got.v))
    THEN [called |-> FALSE, list |-> got.v, err |-> Nil, cache |-> c]
    ELSE IF produced.err # Nil
    THEN [called |-> TRUE, list |-> Nil, err |-> produced.err, cache |-> c]
    ELSE [called |-> TRUE, list |-> produced.list, err |-> Nil,
          cache |-> goCacheSet(c, SubscriptionsKey, Deref(produced.list), ttl, t)]

\* Client.ListCachedResourceGroups with the result produced of ListResourceGroups
ClientListCachedResourceGroups(c, ttl, subscriptionID, produced, t) ==
    LET cacheKey == ResourceGroupsKey(subscriptionID)
        got == goCacheGet(c, cacheKey, t)
    IN  IF got.ok /\ IsResourceGroupMap(Deref(got.v))
        THEN [called |-> FALSE, list |-> got.v, err |-> Nil, cache |-> c]
        ELSE IF produced.err # Nil
        THEN [called |-> TRUE, list |-> produced.list, err |-> produced.err, cache |-> c]
        ELSE [called |-> TRUE, list |-> produced.list, err |-> Nil,
              cache |-> goCacheSet(c, cacheKey, Deref(produced.list), ttl, t)]

\* NewClient
AzInit ==
    /\ azClock = 0
    /\ azCache = [k \in AzKeys |-> Nil]
    /\ azCacheTtl = DefaultCacheTtl
    /\ azLastCall = NoCall

\* time passes
AzTick ==
    /\ azClock < MaxClock
    /\ azClock' = azClock + 1
    /\ azLastCall' = NoCall
    /\ UNCHANGED << azCache, azCacheTtl >>

\* what a cached lookup of the client leaves in the history
AzCalled(op, k, pages, failAt, out) ==
    /\ azCache' = out.cache
    /\ azLastCall' = [ran |-> TRUE, op |-> op, key |-> k, pages |-> pages,
                      failAt |-> failAt, called |-> out.called, list |-> out.list,
                      err |-> out.err, before |-> azCache]

\* a call of Client.ListCachedSubscriptions(ctx)
CallClientListCachedSubscriptions ==
    /\ \E pages \in SubscriptionPages, failAt \in 0..2, e \in Errors :
         /\ failAt <= Len(pages)
         /\ failAt # 0 \/ e = "e1"
         /\ AzCalled("ListCachedSubscriptions", SubscriptionsKey, pages, failAt,
                     ClientListCachedSubscriptions(
                         azCache, azCacheTtl,
                         ClientListSubscriptions(pages, failAt, e), azClock))
    /\ UNCHANGED << azClock, azCacheTtl >>

\* a call of Client.ListCachedResourceGroups(ctx, subscription)
CallClientListCachedResourceGroups ==
    /\ \E sub \in Subscriptions, pages \in GroupPages, failAt \in 0..2, e \in Errors :
         /\ failAt <= Len(pages)
         /\ failAt # 0 \/ e = "e1"
         /\ AzCalled("ListCachedResourceGroups", ResourceGroupsKey(sub), pages, failAt,
                     ClientListCachedResourceGroups(
                         azCache, azCacheTtl, sub,
                         ClientListResourceGroups(pages, failAt, e), azClock))
    /\ UNCHANGED << azClock, azCacheTtl >>

AzNext ==
    \/ AzTick
    \/ CallClientListCachedSubscriptions
    \/ CallClientListCachedResourceGroups

(***************************************************************************)
(* Two collector instances that run cacheStore on the same file location   *)
(* at the same time.  A name of the filesystem refers to a file (inode); a *)
(* file that is open is written through its descriptor, whatever its name  *)
(* is by then.  A file is the sequence of its chunks.                      *)
(***************************************************************************)
VARIABLES
    fsDir,      \* the directory of the location exists
    fsNames,    \* path -> the file it names, if any
    fsFiles,    \* file -> its chunks
    wpc,        \* writer -> where it is in cacheStore
    wfd,        \* writer -> the file it has open, if any
    wpos        \* writer -> the chunks it has written

fsVars == << fsDir, fsNames, fsFiles, wpc, wfd, wpos >>

\* the two instances, named by the content they store
Writers == { "A", "B" }
\* the location both are configured with
WriterFilePath == CHOOSE p \in FilePaths : TRUE
\* the files there can be: the one at the location before, and the one each
\* writer creates if it finds no temporary file
FileIds == { "old" } \cup Writers
\* chunk i of the content of writer w (or of the content that was there)
Chunk(w, i) == << w, i >>
\* a chunk nobody has written: a hole left by a write behind the end
Hole(i) == << "hole", i >>
\* the complete content of writer w (or the complete content that was there)
Content(w) == [i \in 1..Chunks |-> Chunk(w, i)]
\* a file after chunk i of writer w is written at offset i - 1
WriteAt(f, w, i) ==
    [j \in 1..(IF Len(f) > i THEN Len(f) ELSE i) |->
        IF j = i THEN Chunk(w, i) ELSE IF j <= Len(f) THEN f[j] ELSE Hole(j)]

WritersInit ==
    /\ \E dirExists \in BOOLEAN, fileExists \in BOOLEAN :
         /\ fileExists => dirExists
         /\ fsDir = dirExists
         /\ fsNames = [p \in FsPaths |->
                          IF p = WriterFilePath /\ fileExists THEN Ptr("old") ELSE Nil]
    /\ fsFiles = [f \in FileIds |-> IF f = "old" THEN Content("old") ELSE << >>]
    /\ wpc = [w \in Writers |-> "stat"]
    /\ wfd = [w \in Writers |-> Nil]
    /\ wpos = [w \in Writers |-> 0]

\* os.Stat(dirPath) and os.IsNotExist
WriterStat(w) ==
    /\ wpc[w] = "stat"
    /\ wpc' = [wpc EXCEPT ![w] = IF fsDir THEN "open" ELSE "mkdir"]
    /\ UNCHANGED << fsDir, fsNames, fsFiles, wfd, wpos >>

\* os.Mkdir(dirPath, 0700): fails when the directory exists by now, and
\* cacheStore panics
WriterMkdir(w) ==
    /\ wpc[w] = "mkdir"
    /\ IF fsDir
       THEN wpc' = [wpc EXCEPT ![w] = "panic"] /\ UNCHANGED fsDir
       ELSE wpc' = [wpc EXCEPT ![w] = "open"] /\ fsDir' = TRUE
    /\ UNCHANGED << fsNames, fsFiles, wfd, wpos >>

\* os.WriteFile opens tmpFilePath with O_WRONLY|O_CREATE|O_TRUNC: the file
\* of that name is emptied, or a new file gets the name
WriterOpenTmp(w) ==
    /\ wpc[w] = "open"
    /\ LET tmpFilePath == TmpFilePath(WriterFilePath)
           f == IF fsNames[tmpFilePath] # Nil THEN Deref(fsNames[tmpFilePath]) ELSE w
       IN  /\ fsNames' = [fsNames EXCEPT ![tmpFilePath] = Ptr(f)]
           /\ fsFiles' = [fsFiles EXCEPT ![f] = << >>]
           /\ wfd' = [wfd EXCEPT ![w] = Ptr(f)]
    /\ wpos' = [wpos EXCEPT ![w] = 0]
    /\ wpc' = [wpc EXCEPT ![w] = "write"]
    /\ UNCHANGED fsDir

\* os.WriteFile writes the next chunk to the open file; after the last one
\* the file is closed
WriterWriteChunk(w) ==
    /\ wpc[w] = "write"
    /\ LET f == Deref(wfd[w]) IN
       fsFiles' = [fsFiles EXCEPT ![f] = WriteAt(fsFiles[f], w, wpos[w] + 1)]
    /\ wpos' = [wpos EXCEPT ![w] = wpos[w] + 1]
    /\ IF wpos[w] + 1 = Chunks
       THEN wpc' = [wpc EXCEPT ![w] = "rename"] /\ wfd' = [wfd EXCEPT ![w] = Nil]
       ELSE UNCHANGED << wpc, wfd >>
    /\ UNCHANGED << fsDir, fsNames >>

\* os.Rename(tmpFilePath, filePath): fails when there is no file of the
\* temporary name, and cacheStore panics
WriterRename(w) ==
    /\ wpc[w] = "rename"
    /\ LET tmpFilePath == TmpFilePath(WriterFilePath) IN
       IF fsNames[tmpFilePath] = Nil
       THEN wpc' = [wpc EXCEPT ![w] = "panic"] /\ UNCHANGED fsNames
       ELSE /\ fsNames' = [fsNames EXCEPT ![WriterFilePath] = fsNames[tmpFilePath],
                                          ![tmpFilePath] = Nil]
            /\ wpc' = [wpc EXCEPT ![w] = "done"]
    /\ UNCHANGED << fsDir, fsFiles, wfd, wpos >>

WritersNext ==
    \/ \E w \in Writers : WriterStat(w)
    \/ \E w \in Writers : WriterMkdir(w)
    \/ \E w \in Writers : WriterOpenTmp(w)
    \/ \E w \in Writers : WriterWriteChunk(w)
    \/ \E w \in Writers : WriterRename(w)

(***************************************************************************)
(* Parallel workers that call a cached lookup of ArmClient for one key at  *)
(* the same time.  The cache serializes its Get and Set calls; what lies   *)
(* between them in a lookup can interleave with the other workers.         *)
(***************************************************************************)
VARIABLES
    lkOp,        \* the lookup the workers call
    lkCache,     \* azureClient.cache: key -> entry, if any
    lkpc,        \* worker -> where it is in the lookup
    lkResult,    \* worker -> what its producer returned, once it has
    lkReturn,    \* worker -> what the lookup returned, once it has
    lkProduced,  \* history: the objects the producers have returned
    lkLastSet    \* history: the object of the last cache.Set, if there was one

lkVars == << lkOp, lkCache, lkpc, lkResult, lkReturn, lkProduced, lkLastSet >>

\* number of parallel workers
MaxWorkers == 2
Workers == 1..MaxWorkers
\* the key the workers look up
LookupKey(op) ==
    IF op = "cacheData" THEN CHOOSE identifier \in Identifiers : TRUE
    ELSE ResourceGroupsKey(CHOOSE sub \in Subscriptions : TRUE)
\* what the producer of the lookup can return: callback(), or ListResourceGroups
LookupResults(op) ==
    IF op = "cacheData"
    THEN { [list |-> Ptr(o), err |-> Nil] : o \in CallbackObjects }
         \cup { [list |-> Nil, err |-> Ptr("e1")] }
    ELSE { ListResourceGroups(FALSE, pages, 0, "e1") : pages \in PageSeqs }
         \cup { ListResourceGroups(TRUE, << >>, 0, "e1") }
NoResult == [list |-> Nil, err |-> Nil]

WorkersInit ==
    /\ lkOp \in { "cacheData", "ListCachedResourceGroups" }
    /\ lkCache = [k \in ArmKeys |-> Nil]
    /\ lkpc = [w \in Workers |-> "call"]
    /\ lkResult = [w \in Workers |-> NoResult]
    /\ lkReturn = [w \in Workers |-> NoResult]
    /\ lkProduced = {}
    /\ lkLastSet = Nil

\* cache.Get (and the type assertion): a hit is returned at once
WorkerGet(w) ==
    /\ lkpc[w] = "call"
    /\ LET got == goCacheGet(lkCache, LookupKey(lkOp), 0)
           hit == got.ok /\ (lkOp = "ListCachedResourceGroups"
                                => IsResourceGroupMap(Deref(got.v)))
       IN  IF hit
           THEN /\ lkReturn' = [lkReturn EXCEPT ![w] = [list |-> got.v, err |-> Nil]]
                /\ lkpc' = [lkpc EXCEPT ![w] = "returned"]
           ELSE /\ lkpc' = [lkpc EXCEPT ![w] = "miss"]
                /\ UNCHANGED lkReturn
    /\ UNCHANGED << lkOp, lkCache, lkResult, lkProduced, lkLastSet >>

\* the producer runs: callback(), or ListResourceGroups
WorkerProduce(w) ==
    /\ lkpc[w] = "miss"
    /\ \E produced \in LookupResults(lkOp) :
         /\ lkResult' = [lkResult EXCEPT ![w] = produced]
         /\ lkProduced' = IF produced.err = Nil
                          THEN lkProduced \cup { Deref(produced.list) }
                          ELSE lkProduced
    /\ lkpc' = [lkpc EXCEPT ![w] = "produced"]
    /\ UNCHANGED << lkOp, lkCache, lkReturn, lkLastSet >>

\* (mutation) the result is stored only if the key has no entry
WorkerAddAndReturn(w) ==
    /\ lkpc[w] = "produced"
    /\ LET produced == lkResult[w]
           k == LookupKey(lkOp)
       IN  /\ IF produced.err # Nil
              THEN UNCHANGED << lkCache, lkLastSet >>
              ELSE /\ lkCache' = IF lkCache[k] # Nil THEN lkCache
                                 ELSE goCacheSetDefault(lkCache, k, Deref(produced.list), 0)
                   /\ lkLastSet' = produced.list
           /\ lkReturn' = [lkReturn EXCEPT ![w] = produced]
    /\ lkpc' = [lkpc EXCEPT ![w] = "returned"]
    /\ UNCHANGED << lkOp, lkResult, lkProduced >>

\* the rest of the lookup: with an error of the producer the result and the
\* error are returned; otherwise cache.SetDefault (cacheData) or cache.Set
\* with the cacheTtl of a new client stores the result, which is returned
WorkerSetAndReturn(w) ==
    /\ lkpc[w] = "produced"
    /\ LET produced == lkResult[w]
           k == LookupKey(lkOp)
       IN  /\ IF produced.err # Nil
              THEN UNCHANGED << lkCache, lkLastSet >>
              ELSE /\ lkCache' = IF lkOp = "cacheData"
                                 THEN goCacheSetDefault(lkCache, k, Deref(produced.list), 0)
                                 ELSE goCacheSet(lkCache, k, Deref(produced.list),
                                                 DefaultCacheTtl, 0)
                   /\ lkLastSet' = produced.list
           /\ lkReturn' = [lkReturn EXCEPT ![w] = produced]
    /\ lkpc' = [lkpc EXCEPT ![w] = "returned"]
    /\ UNCHANGED << lkOp, lkResult, lkProduced >>

WorkersNext ==
    \/ \E w \in Workers : WorkerGet(w)
    \/ \E w \in Workers : WorkerProduce(w)
    \/ \E w \in Workers : WorkerSetAndReturn(w)

(***************************************************************************)
(* Specifications.  Spec is the collector process with its cache, SpecArm  *)
(* the ArmClient with its lookup cache.                                    *)
(***************************************************************************)
vars == << collVars, armVars, azVars, fsVars, lkVars >>

\* the other objects, just made
OthersInit == AzInit /\ WritersInit /\ ~fsDir /\ WorkersInit /\ lkOp = "cacheData"

Init == CollInit /\ ArmInit /\ OthersInit
Next == CollNext /\ UNCHANGED << armVars, azVars, fsVars, lkVars >>
Spec == Init /\ [][Next]_vars

InitArm ==
    /\ ArmInit
    /\ CollInit
    /\ files[<< "d", "/", "f" >>] = Nil
    /\ dirs = {}
    /\ OthersInit
NextArm == ArmNext /\ UNCHANGED << collVars, azVars, fsVars, lkVars >>
SpecArm == InitArm /\ [][NextArm]_vars

\* SpecAz is the autorest based azure.Client with its lookup cache
InitAz == InitArm
NextAz == AzNext /\ UNCHANGED << collVars, armVars, fsVars, lkVars >>
SpecAz == InitAz /\ [][NextAz]_vars

\* SpecWriters is the two collector instances that store at one location
InitWriters ==
    /\ ArmInit
    /\ CollInit
    /\ files[<< "d", "/", "f" >>] = Nil
    /\ dirs = {}
    /\ AzInit
    /\ WritersInit
    /\ WorkersInit
    /\ lkOp = "cacheData"
NextWriters == WritersNext /\ UNCHANGED << collVars, armVars, azVars, lkVars >>
SpecWriters == InitWriters /\ [][NextWriters]_vars

\* SpecWorkers is the parallel workers that look up one key
InitWorkers ==
    /\ ArmInit
    /\ CollInit
    /\ files[<< "d", "/", "f" >>] = Nil
    /\ dirs = {}
    /\ AzInit
    /\ WritersInit
    /\ ~fsDir
    /\ WorkersInit
NextWorkers == WorkersNext /\ UNCHANGED << collVars, armVars, azVars, fsVars >>
SpecWorkers == InitWorkers /\ [][NextWorkers]_vars

(***************************************************************************)
(* Properties of the collector cache.                                      *)
(***************************************************************************)
\* the last restore read bytes that are one complete JSON record
RestoreReadRecord ==
    /\ lastRestore.ran
    /\ lastRestore.cache # Nil
    /\ lastRestore.read.exists
    /\ lastRestore.read.content.len = Chunks
    /\ lastRestore.read.content.json # Nil
\* that record, and the configuration it was read with
RestoreRecord == Deref(lastRestore.read.content.json)
RestoreCache == Deref(lastRestore.cache)
\* the live state is what it was before the last restore
RestoreLeftState ==
    /\ data = lastRestore.pre.data
    /\ sleepTime = lastRestore.pre.sleepTime
    /\ lastScrapeTime = lastRestore.pre.lastScrapeTime
\* the collector is where the last restore left it
AfterRestore == lastRestore.ran /\ pc \in { "idle", "restored" }
Min(a, b) == IF a < b THEN a ELSE b

\* C1: while and after cacheStore writes new content to a file location (a
\* crash or a failing step included), the destination file is what it was
\* before the call or holds the complete new content
C1_DestinationOldOrNew ==
    (lastStore.ran /\ Deref(lastStore.cache).protocol = cacheProtocolFile)
        => files[Deref(lastStore.cache).spec["file:path"]]
              \in { lastStore.before, Ptr(lastStore.content) }
\* a store over an existing file fails with the temporary file half written
C1_Witness ==
    /\ pc = "panic"
    /\ lastStore.ran
    /\ Deref(lastStore.cache).protocol = cacheProtocolFile
    /\ lastStore.before # Nil
    /\ lastStore.before # Ptr(lastStore.content)
    /\ files[Deref(lastStore.cache).spec["file:path"]] = lastStore.before
    /\ files[TmpFilePath(Deref(lastStore.cache).spec["file:path"])]
          = Ptr(Written(lastStore.content, 1))

\* C2: with a cache tag configured, a record whose tag is absent or differs
\* from it is rejected by collectionRestoreCache: false is returned and the
\* live state stays as it was
C2_TagEnforced ==
    (RestoreReadRecord /\ RestoreCache.tag # Nil /\ RestoreRecord.tag # RestoreCache.tag)
        => /\ ~lastRestore.ret
           /\ AfterRestore => (pc = "idle" /\ RestoreLeftState)
\* a record tagged "v1" that has not expired is rejected under the tag "v2"
C2_Witness ==
    /\ RestoreReadRecord
    /\ pc = "idle"
    /\ RestoreCache.tag = Ptr("v2")
    /\ RestoreRecord.tag = Ptr("v1")
    /\ RestoreRecord.expiry # Nil
    /\ Deref(RestoreRecord.expiry) > lastRestore.tNow
    /\ ~lastRestore.ret

\* C3: a record whose expiry is absent or not after the time of the restore
\* is never applied, whatever the tags: false is returned and the live
\* state stays as it was
C3_ExpiredNeverApplied ==
    (/\ RestoreReadRecord
     /\ \/ RestoreRecord.expiry = Nil
        \/ Deref(RestoreRecord.expiry) <= lastRestore.tNow)
        => /\ ~lastRestore.ret
           /\ AfterRestore => (pc = "idle" /\ RestoreLeftState)
\* a record with the configured tag is read at the very instant it expires
C3_Witness ==
    /\ RestoreReadRecord
    /\ pc = "idle"
    /\ RestoreCache.tag # Nil
    /\ RestoreRecord.tag = RestoreCache.tag
    /\ RestoreRecord.expiry = Ptr(lastRestore.tNow)
    /\ ~lastRestore.ret

C5_SleepClamp ==
    (pc = "restored" /\ RestoreReadRecord)
        => /\ sleepTime # Nil
           /\ Deref(sleepTime)
                = Min((Deref(RestoreRecord.expiry) - lastRestore.tUntil) + Margin,
                      Deref(scrapeTime))
\* the restore shortened the sleep below the scrape time
C5_Witness ==
    /\ pc = "restored"
    /\ RestoreReadRecord
    /\ Deref(sleepTime) = (Deref(RestoreRecord.expiry) - lastRestore.tUntil) + Margin
    /\ Deref(sleepTime) < Deref(scrapeTime)

\* the segments (host, container, blob name ...) of an azblob location
LocationSegments(rawSpec) == { i \in 2..Len(rawSpec) : rawSpec[i] # "/" }
\* an azblob location without a blob name: a host only, or host/container
LacksBlobName(rawSpec) ==
    HasPrefix(rawSpec, "azblob://") /\ Cardinality(LocationSegments(rawSpec)) < 3

\* C8: SetCache with an azblob location that has no blob name panics, and
\* the collector goes no further with that configuration
C8_MalformedLocationFails ==
    (lastSetCache.ran /\ LacksBlobName(lastSetCache.rawSpec))
        => lastSetCache.panic /\ pc = "panic"

\* C9 (as stated): after a restore, every metric list of the record is in
\* the live state, or the live state is what it was before
C9_AllListsOrNothing ==
    (AfterRestore /\ RestoreReadRecord)
        => \/ \A name \in DOMAIN RestoreRecord.metrics :
                /\ name \in DOMAIN data.Metrics
                /\ data.Metrics[name].List = RestoreRecord.metrics[name].list
           \/ RestoreLeftState
\* C9 (amended): after a restore, either every list of the record that is
\* not null and whose name the collector has registered has replaced the
\* live list (the other live lists being as before), or the live state is
\* what it was before
C9_RegisteredListsOrNothing ==
    (AfterRestore /\ RestoreReadRecord)
        => \/ /\ lastRestore.ret
              /\ DOMAIN data.Metrics = DOMAIN lastRestore.pre.data.Metrics
              /\ \A name \in DOMAIN data.Metrics :
                    data.Metrics[name].List =
                        IF /\ name \in DOMAIN RestoreRecord.metrics
                           /\ RestoreRecord.metrics[name].list # Nil
                        THEN RestoreRecord.metrics[name].list
                        ELSE lastRestore.pre.data.Metrics[name].List
           \/ ~lastRestore.ret /\ RestoreLeftState
\* a record with an unregistered list and a null list has been restored
C9_Witness ==
    /\ pc = "restored"
    /\ RestoreReadRecord
    /\ "m3" \in DOMAIN RestoreRecord.metrics
    /\ RestoreRecord.metrics["m2"].list = Nil
    /\ data.Metrics["m1"].List = RestoreRecord.metrics["m1"].list
    /\ data.Metrics["m1"].List # lastRestore.pre.data.Metrics["m1"].List

\* the last save of this process has stored its record
SaveStored == lastStore.ran /\ lastStore.done /\ lastSave.ran /\ lastSave.stored
SavedRecord == Deref(lastSave.bytes.json)

\* C10 (as stated): the record written by collectionSaveCache has the start
\* of the collection run as created, that start plus the configured scrape
\* time as expiry, the configured tag and the current metric lists
C10_ExpiryFromCycleStart ==
    SaveStored
        => /\ SavedRecord.created = Ptr(lastSave.start)
           /\ SavedRecord.expiry = Ptr(lastSave.start + Deref(scrapeTime))
           /\ SavedRecord.tag = lastSave.tag
           /\ \A name \in Registered :
                 SavedRecord.metrics[name].list = lastSave.metrics[name].List
\* C10 (amended): the record written by collectionSaveCache has the start of
\* the collection run as created, the time of the save plus the current
\* sleep time as expiry, the configured tag and the current metric lists,
\* and it is what the location holds when the save is done
C10_ExpiryFromSaveTime ==
    SaveStored
        => /\ SavedRecord.created = Ptr(lastSave.start)
           /\ SavedRecord.expiry = Ptr(lastSave.at + Deref(lastSave.sleep))
           /\ SavedRecord.tag = lastSave.tag
           /\ lastSave.tag = Deref(cache).tag
           /\ DOMAIN SavedRecord.metrics = Registered
           /\ \A name \in Registered :
                 SavedRecord.metrics[name].list = lastSave.metrics[name].List
           /\ pc = "sleeping" => Stored(Deref(cache), files, blobs) = Ptr(lastSave.bytes)
\* a save that ran later than the start of its collection run
C10_Witness ==
    /\ SaveStored
    /\ pc = "sleeping"
    /\ lastSave.at > lastSave.start
    /\ lastSave.tag # Nil
    /\ Stored(Deref(cache), files, blobs) = Ptr(lastSave.bytes)

(***************************************************************************)
(* Properties of the lookup cache.                                         *)
(***************************************************************************)
\* an entry that is there and has not lapsed at time t
LiveEntry(entry, t) ==
    entry # Nil /\ (Deref(entry).Expiration = Nil \/ t <= Deref(Deref(entry).Expiration))

\* C6: a cached lookup that finds no live entry calls the producer; when the
\* producer fails, its error is returned and the cache is left as it was;
\* when it succeeds, its result is returned and is the entry of the key
C6_ComputeIfAbsent ==
    (lastCall.ran /\ ~LiveEntry(lastCall.before[lastCall.key], lastCall.at))
        => /\ lastCall.called
           /\ lastCall.produced.err # Nil
                => /\ lastCall.err = lastCall.produced.err
                   /\ armCache = lastCall.before
           /\ lastCall.produced.err = Nil
                => /\ lastCall.err = Nil
                   /\ lastCall.list = lastCall.produced.list
                   /\ armCache[lastCall.key] # Nil
                   /\ Ptr(Deref(armCache[lastCall.key]).Object) = lastCall.produced.list
                   /\ \A k \in ArmKeys \ { lastCall.key } :
                         armCache[k] = lastCall.before[k]
\* a producer failed over a lapsed entry, which is still there
C6_Witness ==
    /\ lastCall.ran
    /\ lastCall.op = "cacheData"
    /\ lastCall.before[lastCall.key] # Nil
    /\ ~LiveEntry(lastCall.before[lastCall.key], lastCall.at)
    /\ lastCall.called
    /\ lastCall.err = Ptr("e2")
    /\ armCache[lastCall.key] = lastCall.before[lastCall.key]

\* C7: a lookup for a key made while the time to live of the last object
\* stored for the key has not elapsed returns that object and does not call
\* the producer
C7_NoRefetchWithinTtl ==
    (/\ lastCall.ran
     /\ lastCall.prior # Nil
     /\ Deref(lastCall.prior).ttl > 0
     /\ lastCall.at <= Deref(lastCall.prior).at + Deref(lastCall.prior).ttl)
        => /\ ~lastCall.called
           /\ lastCall.err = Nil
           /\ lastCall.list = Deref(lastCall.prior).val
\* a resource group lookup is answered from the cache, later than the fetch
C7_Witness ==
    /\ lastCall.ran
    /\ lastCall.op = "ListCachedResourceGroups"
    /\ lastCall.prior # Nil
    /\ Deref(lastCall.prior).ttl > 0
    /\ lastCall.at > Deref(lastCall.prior).at
    /\ lastCall.at <= Deref(lastCall.prior).at + Deref(lastCall.prior).ttl
    /\ ~lastCall.called
    /\ lastCall.produced.list # lastCall.list

(***************************************************************************)
(* Properties of the storage access of the collector cache.                *)
(***************************************************************************)
\* cacheStore is at one of its steps
Storing == pc \in { "cacheStore", "writeFile", "writing", "rename" }

\* C11: a failure of cacheRead or of a step of cacheStore never ends the
\* collector: once the store has returned or failed, the collector sleeps
\* until its next collection run and has the metric lists it collected
C11_PersistenceFailureContinues ==
    /\ (lastStore.ran /\ ~Storing)
          => /\ pc # "panic"
             /\ pc = "sleeping" => data.Metrics = lastSave.metrics
    /\ (lastRestore.ran /\ ~lastRestore.ret /\ ~lastStore.ran /\ ~Storing)
          => pc \in { "idle", "collecting", "collected", "sleeping" }

\* C12: cacheRead on an object store says "not there" (exists = false) only
\* when the blob is not there; a download that fails for another reason is
\* not reported as an absent blob
C12_NotFoundOnlyWhenAbsent ==
    (/\ AfterRestore
     /\ lastRestore.cache # Nil
     /\ RestoreCache.protocol = cacheProtocolAzBlob
     /\ ~lastRestore.read.exists)
        => blobs[BlobKey(RestoreCache)] = Nil

(***************************************************************************)
(* Properties of the entries of the lookup cache.                          *)
(***************************************************************************)
\* what cache.Get finds for key k now
GetNow(k) == goCacheGet(armCache, k, clock)
\* the last object stored for key k, when, and the duration it was stored with
LastSet(k) == Deref(fetched[k])

\* C13 (as stated): after an object is stored for a key with a duration,
\* cache.Get finds that object at every time before the duration has
\* elapsed and finds nothing at every time after it has elapsed, purged or not
C13_FoundUntilTtlElapsed ==
    \A k \in ArmKeys :
        fetched[k] # Nil
            => /\ clock < LastSet(k).at + LastSet(k).ttl
                    => GetNow(k).ok /\ GetNow(k).v = LastSet(k).val
               /\ clock > LastSet(k).at + LastSet(k).ttl
                    => ~GetNow(k).ok
\* C13 (amended): after an object is stored for a key with a positive
\* duration, cache.Get finds that object at every time before the duration
\* has elapsed and finds nothing at every time after it has elapsed, purged
\* or not; stored with the duration 0 the object lives for the default
\* expiration of the cache, and stored with a negative duration it is found
\* at every later time
C13_FoundUntilPositiveTtlElapsed ==
    \A k \in ArmKeys :
        fetched[k] # Nil
            => LET life == IF LastSet(k).ttl = 0 THEN DefaultExpiration
                           ELSE LastSet(k).ttl
               IN  /\ (life < 0 \/ clock < LastSet(k).at + life)
                        => GetNow(k).ok /\ GetNow(k).v = LastSet(k).val
                   /\ (life > 0 /\ clock > LastSet(k).at + life)
                        => ~GetNow(k).ok
\* an entry stored with a positive duration has lapsed and is still in the
\* cache, and cache.Get does not find it
C13_Witness ==
    \E k \in ArmKeys :
        /\ fetched[k] # Nil
        /\ LastSet(k).ttl > 0
        /\ clock > LastSet(k).at + LastSet(k).ttl
        /\ armCache[k] # Nil
        /\ ~GetNow(k).ok

(***************************************************************************)
(* Properties of the restore at the start of the process.                  *)
(***************************************************************************)
\* the last restore found nothing at the location, or bytes that are not
\* one complete JSON record
RestoreReadNoRecord ==
    /\ lastRestore.ran
    /\ lastRestore.cache # Nil
    /\ \/ ~lastRestore.read.exists
       \/ jsonUnmarshal(lastRestore.read.content, NewCollectorData).err

\* C14: when the location holds nothing or bytes that cannot be decoded,
\* collectionRestoreCache returns false without a panic, the live state is
\* what it was, and the collector starts its first collection run unseeded
\* (it is not in a panic before a later cacheStore has run)
C14_ColdStartNeverFatal ==
    RestoreReadNoRecord
        => /\ ~lastRestore.ret
           /\ pc \notin { "panic", "restored" } \/ lastStore.ran
           /\ AfterRestore => (pc = "idle" /\ RestoreLeftState)
\* bytes that are no JSON were read, and the collector goes on unseeded
C14_Witness ==
    /\ RestoreReadNoRecord
    /\ lastRestore.read.exists
    /\ lastRestore.read.content = Garbage
    /\ pc = "idle"
    /\ RestoreLeftState

\* C15: without a configured cache tag the tag of a record is not looked at:
\* a record that has not expired is accepted by collectionRestoreCache
\* whether it has no tag or any tag
C15_NilTagAcceptsAnyTag ==
    (/\ RestoreReadRecord
     /\ RestoreCache.tag = Nil
     /\ RestoreRecord.expiry # Nil
     /\ Deref(RestoreRecord.expiry) > lastRestore.tNow)
        => /\ lastRestore.ret
           /\ AfterRestore
                => /\ pc = "restored"
                   /\ data.Expiry = RestoreRecord.expiry
\* a tagged record and no configured tag: the record has been restored
C15_Witness ==
    /\ RestoreReadRecord
    /\ RestoreCache.tag = Nil
    /\ RestoreRecord.tag = Ptr("v1")
    /\ pc = "restored"
    /\ lastRestore.ret

(***************************************************************************)
(* Properties of cacheStore on a file location.                            *)
(***************************************************************************)
\* the last cacheStore was one to a file and has returned
FileStoreDone ==
    /\ lastStore.ran
    /\ lastStore.done
    /\ Deref(lastStore.cache).protocol = cacheProtocolFile
\* the destination of the last cacheStore, its directory and its temporary file
StorePath == Deref(lastStore.cache).spec["file:path"]
StoreDir == FilepathDir(StorePath)
StoreTmpPath == FilepathJoin(StoreDir, << "." >> \o FilepathBase(StorePath) \o << ".tmp" >>)
\* the temporary file of a destination p
TmpOf(p) == FilepathJoin(FilepathDir(p), << "." >> \o FilepathBase(p) \o << ".tmp" >>)

\* C16: after a cacheStore to a file location has returned, the temporary
\* file ".<basename>.tmp" in the directory of the destination does not exist
\* and the destination holds exactly the bytes that were to be written
C16_NoTmpAfterStore ==
    FileStoreDone
        => /\ StoreTmpPath # StorePath
           /\ files[StoreTmpPath] = Nil
           /\ files[StorePath] = Ptr(lastStore.content)
\* a store has replaced an older file and left no temporary file
C16_Witness ==
    /\ FileStoreDone
    /\ pc = "sleeping"
    /\ lastStore.before # Nil
    /\ lastStore.before # Ptr(lastStore.content)
    /\ files[StorePath] = Ptr(lastStore.content)
    /\ files[StoreTmpPath] = Nil

(***************************************************************************)
(* Properties of a collector whose caching is off.                         *)
(***************************************************************************)
\* the last configuration call was DisableCache or SetCache(nil, _)
CachingOff == lastSetCache.ran /\ lastSetCache.off
\* the storage holds what it held when the process started
StorageUntouched ==
    \E pl \in Planted :
        /\ files = [p \in FsPaths |-> IF p \in FilePaths THEN pl.snapshot ELSE Nil]
        /\ blobs = [k \in BlobKeys |-> pl.snapshot]

\* C17: after DisableCache or SetCache(nil, _) there is no cache
\* configuration: collectionRestoreCache returns false, reads nothing and
\* leaves the live state as it was, and collectionSaveCache stores nothing,
\* so that the storage stays what it was
C17_DisabledTouchesNoStorage ==
    CachingOff
        => /\ cache = Nil
           /\ lastRestore.ran
                => /\ ~lastRestore.ret
                   /\ lastRestore.read = [content |-> EmptyBytes, exists |-> FALSE]
                   /\ AfterRestore => (pc = "idle" /\ RestoreLeftState)
           /\ ~lastStore.ran
           /\ ~Storing
           /\ pc = "sleeping" => (lastSave.ran /\ ~lastSave.stored)
           /\ StorageUntouched
\* with caching off the collector has restored nothing and saved nothing,
\* although the location holds a snapshot
C17_Witness ==
    /\ CachingOff
    /\ lastRestore.ran
    /\ pc = "sleeping"
    /\ lastSave.ran
    /\ lastSave.at > 0
    /\ \E p \in FilePaths : files[p] # Nil /\ files[p] # Ptr(Garbage)

\* C18 (as stated): cacheStore to a file location first writes the content
\* to the temporary file, then creates the directory of the destination if
\* it is absent, then renames: when the directory is created, the temporary
\* file holds the content
C18_TmpWrittenThenMkdir ==
    [][ \A p \in FilePaths :
            dirs' # dirs => files[TmpOf(p)] = Ptr(content) ]_vars
\* C18 (amended): cacheStore to a file location first creates the directory
\* of the destination if it is absent, then writes the content to the
\* temporary file, then renames the temporary file onto the destination:
\* the directory is created before anything is written, the temporary file
\* is written only when the directory exists, and the destination changes
\* only by the rename of the completely written temporary file
C18_MkdirThenTmpThenRename ==
    [][ \A p \in FilePaths :
            /\ dirs' # dirs
                 => /\ files' = files
                    /\ files[TmpOf(p)] # Ptr(content)
                    /\ dirs' = dirs \cup { FilepathDir(p) }
            /\ (files'[TmpOf(p)] # files[TmpOf(p)] /\ files'[TmpOf(p)] # Nil)
                 => /\ FilepathDir(p) \in dirs
                    /\ files'[p] = files[p]
            /\ files'[p] # files[p]
                 => /\ FilepathDir(p) \in dirs
                    /\ files[TmpOf(p)] = Ptr(content)
                    /\ files'[p] = Ptr(content)
                    /\ files'[TmpOf(p)] = Nil ]_vars
\* a store has created the directory and then written the temporary file
\* completely, and has not renamed it yet
C18_Witness ==
    /\ pc = "rename"
    /\ lastStore.ran
    /\ StoreDir \notin lastStore.dirs
    /\ StoreDir \in dirs
    /\ files[StoreTmpPath] = Ptr(lastStore.content)
    /\ files[StorePath] = lastStore.before

(***************************************************************************)
(* Properties of the resolution of an azblob location.                     *)
(***************************************************************************)
\* the last SetCache was given azblob://<host>/<container>/<blob...> and
\* configured a cache
ResolvedBlobLocation ==
    /\ lastSetCache.ran
    /\ ~lastSetCache.off
    /\ ~lastSetCache.panic
    /\ HasPrefix(lastSetCache.rawSpec, "azblob://")
    /\ Cardinality(LocationSegments(lastSetCache.rawSpec)) >= 3
    /\ cache # Nil

\* C19: for azblob://<host>/<container>/<blob...> SetCache takes the first
\* segment of the path as the container and what follows the "/" after it
\* as the name of the blob
C19_ContainerIsFirstSegment ==
    ResolvedBlobLocation
        => /\ Deref(cache).spec["azblob:container"] = << lastSetCache.rawSpec[4] >>
           /\ Deref(cache).spec["azblob:blob"]
                = SubSeq(lastSetCache.rawSpec, 6, Len(lastSetCache.rawSpec))

\* C20: an entry stored after SetCacheTtl(t), by ListCachedResourceGroups or
\* by cacheData, lapses t after it was stored
C20_StoredEntriesLapseAfterCacheTtl ==
    (/\ lastCall.ran
     /\ lastCall.called
     /\ lastCall.err = Nil
     /\ cacheTtl \in TtlInputs)
        => /\ armCache[lastCall.key] # Nil
           /\ Deref(armCache[lastCall.key]).Expiration = Ptr(lastCall.at + cacheTtl)

(***************************************************************************)
(* Properties of the lookup cache of azure.Client.                         *)
(***************************************************************************)
\* C21: a cached lookup during whose enumeration a page fetch fails returns
\* an error and leaves the cache as it was: a list that was enumerated only
\* in part is neither returned as a success nor stored
C21_PageFailureIsAnError ==
    (azLastCall.ran /\ azLastCall.called /\ azLastCall.failAt # 0)
        => /\ azLastCall.err # Nil
           /\ azCache = azLastCall.before

(***************************************************************************)
(* Properties of what collectionRestoreCache leaves in the collector.      *)
(***************************************************************************)
\* the names the record and the collector both have a metric list for
RestoreCommonNames == DOMAIN RestoreRecord.metrics \cap DOMAIN data.Metrics

\* C22 (as stated): after a successful restore the last scrape time is the
\* created time of the record, and every metric list of the record has
\* replaced the live list of its name
C22_EveryListReplaced ==
    (pc = "restored" /\ RestoreReadRecord)
        => /\ lastScrapeTime = RestoreRecord.created
           /\ \A name \in RestoreCommonNames :
                 data.Metrics[name].List = RestoreRecord.metrics[name].list
\* C22 (amended): after a successful restore the last scrape time is the
\* created time of the record if it has one and is what it was otherwise,
\* and every metric list of the record that is not null has replaced the
\* live list of its name, while the live list of a name whose list in the
\* record is null is what it was
C22_NonNullListsReplaced ==
    (pc = "restored" /\ RestoreReadRecord)
        => /\ lastScrapeTime = IF RestoreRecord.created # Nil
                               THEN RestoreRecord.created
                               ELSE lastRestore.pre.lastScrapeTime
           /\ \A name \in RestoreCommonNames :
                 data.Metrics[name].List =
                     IF RestoreRecord.metrics[name].list # Nil
                     THEN RestoreRecord.metrics[name].list
                     ELSE lastRestore.pre.data.Metrics[name].List
\* a record with a created time and two lists has been restored over the
\* empty lists of a new collector
C22_Witness ==
    /\ pc = "restored"
    /\ RestoreReadRecord
    /\ RestoreRecord.created # Nil
    /\ lastScrapeTime = RestoreRecord.created
    /\ lastRestore.pre.lastScrapeTime = Nil
    /\ \A name \in RestoreCommonNames :
          /\ RestoreRecord.metrics[name].list # Nil
          /\ data.Metrics[name].List = RestoreRecord.metrics[name].list
          /\ data.Metrics[name].List # lastRestore.pre.data.Metrics[name].List

\* the last restore found a record whose expiry is not after the time of
\* the restore
RestoreReadExpired ==
    /\ RestoreReadRecord
    /\ RestoreRecord.expiry # Nil
    /\ Deref(RestoreRecord.expiry) <= lastRestore.tNow

\* C24: when collectionRestoreCache has returned false (no cache configured,
\* nothing at the location, bytes that cannot be decoded, a tag mismatch or
\* an expired record), the metric lists, the expiry, the last scrape time
\* and the sleep time of the collector are what they were before the call
C24_FalseLeavesStateUnchanged ==
    (AfterRestore /\ ~lastRestore.ret)
        => /\ pc = "idle"
           /\ data.Metrics = lastRestore.pre.data.Metrics
           /\ data.Expiry = lastRestore.pre.data.Expiry
           /\ lastScrapeTime = lastRestore.pre.lastScrapeTime
           /\ sleepTime = lastRestore.pre.sleepTime
\* a record with lists, a created time and the configured tag was read
\* after its expiry, and the collector is as it was
C24_Witness ==
    /\ AfterRestore
    /\ ~lastRestore.ret
    /\ RestoreReadExpired
    /\ RestoreRecord.tag = RestoreCache.tag
    /\ RestoreRecord.created # Nil
    /\ \E name \in RestoreCommonNames :
          /\ RestoreRecord.metrics[name].list # Nil
          /\ RestoreRecord.metrics[name].list # data.Metrics[name].List
    /\ data.Expiry = Nil
    /\ lastScrapeTime = Nil

(***************************************************************************)
(* Properties of two instances that store at one file location.            *)
(***************************************************************************)
\* what the destination holds, if it exists
DestinationFile == fsFiles[Deref(fsNames[WriterFilePath])]

\* C23: while and after two instances run cacheStore on one file location
\* with the contents A and B, the destination, whenever it exists, holds
\* exactly A, exactly B or the complete content it had before, and neither
\* instance fails
C23_ConcurrentStoreTolerated ==
    /\ fsNames[WriterFilePath] # Nil
          => DestinationFile \in { Content("A"), Content("B"), Content("old") }
    /\ \A w \in Writers : wpc[w] # "panic"

(***************************************************************************)
(* Properties of parallel lookups of one key.                              *)
(***************************************************************************)
\* every worker's lookup has returned
AllReturned == \A w \in Workers : lkpc[w] = "returned"
\* the object the cache has for the key, if it has one
LookupEntry ==
    IF lkCache[LookupKey(lkOp)] = Nil THEN Nil
    ELSE Ptr(Deref(lkCache[LookupKey(lkOp)]).Object)

\* C25: when parallel workers call the cached lookup for one key that has
\* no entry, every call whose producer succeeded returns, without an error,
\* an object that a producer has returned for the key, and so does every
\* call answered from the cache; once all calls have returned the entry of
\* the key is the object of the last cache.Set, and there is none if no
\* producer succeeded
C25_LastSetWins ==
    /\ \A w \in Workers :
          lkpc[w] = "returned"
             => /\ lkResult[w].err = Nil
                   => /\ lkReturn[w].err = Nil
                      /\ lkReturn[w].list # Nil
                      /\ Deref(lkReturn[w].list) \in lkProduced
                /\ lkResult[w] # NoResult => lkReturn[w] = lkResult[w]
    /\ AllReturned => LookupEntry = lkLastSet
\* both workers missed and produced different objects; the entry is the
\* object of the one that stored last, which is not what the other returned
C25_Witness ==
    /\ AllReturned
    /\ \A w \in Workers : lkResult[w] # NoResult /\ lkResult[w].err = Nil
    /\ \E w \in Workers : lkReturn[w].list # lkLastSet
    /\ LookupEntry = lkLastSet

====
